---------------------------- MODULE Spec2Model ----------------------------
(***************************************************************************)
(* A model of apartment_scraper.py: the availability text normalisation    *)
(* (_get_text, _clean_data, the bulk column pass of save_to_excel), the    *)
(* collision-avoiding path selection of save_to_excel, scrape_listing and  *)
(* the pipeline run of main with its browser resource.                     *)
(*                                                                         *)
(* Text is a sequence of one-character strings, so that trimming, prefix   *)
(* tests, substring replacement and path splitting are computed character  *)
(* by character as Python computes them.                                   *)
(***************************************************************************)
EXTENDS Integers, Sequences, FiniteSets, TLC

VARIABLES
    nin,        \* normalisation harness: the raw text handed in
    ntrace,     \* normalisation harness: <<operation, value>> per pass applied
    pc,         \* position of the running call (main or a direct export call)
    caller,     \* "main" or "api": who called save_to_excel
    raw_input,  \* what input() returned, before .strip()
    url,        \* main's url after line 138-142
    browser,    \* "none" | "acquired" | "released" (the Chrome driver)
    page,       \* what the rendering client did in this run's scrape_listing
    scrape_ret, \* "none" | "returned" | "raised": how scrape_listing ended
    units_data, \* the list scrape_listing returned
    exc,        \* the exception propagating in / out of the current call
    df,         \* save_to_excel's DataFrame (a sequence of rows)
    output_file,        \* save_to_excel's parameter
    final_output_file,  \* save_to_excel's candidate path
    counter,            \* save_to_excel's suffix counter
    tried,      \* history: the candidate paths os.path.exists was asked about
    files,      \* the filesystem: path -> ordinal of the export that wrote it (0: before)
    files0,     \* history: the filesystem when the current call started
    initFiles,  \* history: the filesystem in the initial state
    log,        \* history: <<desired name, final path>> per completed write
    runs        \* number of calls started so far

vars == <<nin, ntrace, pc, caller, raw_input, url, browser, page, scrape_ret,
          units_data, exc, df, output_file, final_output_file, counter, tried,
          files, files0, initFiles, log, runs>>

normVars == <<nin, ntrace>>
runVars == <<pc, caller, raw_input, url, browser, page, scrape_ret, units_data,
             exc, df, output_file, final_output_file, counter, tried, files,
             files0, initFiles, log, runs>>

(***************************************************************************)
(* Bounds of the model.                                                    *)
(***************************************************************************)
MaxPieces == 3      \* pieces concatenated into one raw availability text
MaxPasses == 2      \* consecutive bulk passes the harness applies
MaxUnits == 2       \* unit elements on a rendered page
MaxRuns == 2        \* runs of main
MaxExports == 3     \* direct save_to_excel calls
MaxCounter == 8     \* cap on the suffix counter of the path loop

(***************************************************************************)
(* Text: Python str operations.                                            *)
(***************************************************************************)
UpperCase == <<"A", "B", "C", "D", "E", "F", "G", "H", "I", "J", "K", "L", "M",
               "N", "O", "P", "Q", "R", "S", "T", "U", "V", "W", "X", "Y", "Z">>
LowerCase == <<"a", "b", "c", "d", "e", "f", "g", "h", "i", "j", "k", "l", "m",
               "n", "o", "p", "q", "r", "s", "t", "u", "v", "w", "x", "y", "z">>

\* re.IGNORECASE compares characters after case folding.
Fold(c) ==
    IF \E i \in 1..26 : UpperCase[i] = c
    THEN LowerCase[CHOOSE i \in 1..26 : UpperCase[i] = c]
    ELSE c

\* The characters str.strip() removes.
IsSpace(c) == c \in {" ", "\n", "\t", "\r"}

SetMin(S) == CHOOSE x \in S : \A y \in S : x <= y
SetMax(S) == CHOOSE x \in S : \A y \in S : y <= x

\* str.strip(): leading and trailing whitespace removed.
Strip(s) ==
    LET ink == {i \in 1..Len(s) : ~IsSpace(s[i])}
    IN  IF ink = {} THEN <<>> ELSE SubSeq(s, SetMin(ink), SetMax(ink))

\* Whether pat occurs in s at index i, exactly or ignoring case.
MatchAt(s, i, pat, nocase) ==
    /\ i + Len(pat) - 1 <= Len(s)
    /\ \A k \in 1..Len(pat) :
          IF nocase THEN Fold(s[i + k - 1]) = Fold(pat[k])
                    ELSE s[i + k - 1] = pat[k]

\* str.replace(pat, "", count) / re.sub(pat, "", s, count) scanning from index
\* i: left to right, non-overlapping; count < 0 means every occurrence.
RECURSIVE RemoveFrom(_, _, _, _, _)
RemoveFrom(s, pat, i, nocase, count) ==
    IF i > Len(s) THEN <<>>
    ELSE IF count # 0 /\ MatchAt(s, i, pat, nocase)
         THEN RemoveFrom(s, pat, i + Len(pat), nocase, IF count > 0 THEN count - 1 ELSE count)
         ELSE <<s[i]>> \o RemoveFrom(s, pat, i + 1, nocase, count)

\* str.replace mutated: count = 1, only the first occurrence goes.
RemoveFirst(s, pat, nocase) == RemoveFrom(s, pat, 1, nocase, 1)

\* text.replace(pat, ""): every occurrence goes.
RemoveAll(s, pat, nocase) == RemoveFrom(s, pat, 1, nocase, -1)

\* str.startswith(prefix) mutated: the last character of the prefix is not compared.
StartsWithLoose(s, prefix) == MatchAt(s, 1, SubSeq(prefix, 1, Len(prefix) - 1), FALSE)

\* str.startswith(prefix)
StartsWith(s, prefix) == MatchAt(s, 1, prefix, FALSE)

EndsWith(s, suffix) ==
    Len(suffix) <= Len(s) /\ MatchAt(s, Len(s) - Len(suffix) + 1, suffix, FALSE)

\* The number of non-overlapping occurrences of pat in s from index i on.
RECURSIVE CountFrom(_, _, _, _)
CountFrom(s, pat, i, nocase) ==
    IF i > Len(s) THEN 0
    ELSE IF MatchAt(s, i, pat, nocase)
         THEN 1 + CountFrom(s, pat, i + Len(pat), nocase)
         ELSE CountFrom(s, pat, i + 1, nocase)

Occurrences(s, pat, nocase) == CountFrom(s, pat, 1, nocase)

\* Concatenation of a sequence of texts.
RECURSIVE Concat(_)
Concat(ps) == IF ps = <<>> THEN <<>> ELSE Head(ps) \o Concat(Tail(ps))

(***************************************************************************)
(* The availability normalisation.                                         *)
(***************************************************************************)
LABEL_LITERAL == <<"A", "v", "a", "i", "l", "a", "b", "i", "l", "i", "t", "y", "\n">>
BULK_LITERAL == <<"a", "v", "a", "i", "l", "i", "b", "i", "l", "i", "t", "y", "\n">>
AVAIL_SELECTOR == "span.dateAvailable"

\* An element handle: dom maps a selector to <<>> (no match) or <<text>>;
\* stale: the handle is no longer attached, every lookup on it raises.
Resolves(element, selector) == ~element.stale /\ element.dom[selector] # <<>>

\* _get_text mutated: replace(..., 1), only the first label goes.
GetTextFirstOnly(element, selector) ==
    IF ~Resolves(element, selector) THEN <<>>
    ELSE LET text == Strip(element.dom[selector][1])
         IN  IF selector = AVAIL_SELECTOR
             THEN RemoveFirst(text, LABEL_LITERAL, FALSE)
             ELSE text

\* _get_text(element, selector): "" when the lookup raises (bare except);
\* otherwise .text.strip(), and for the availability selector every
\* occurrence of the label literal replaced by "".
GetText(element, selector) ==
    IF ~Resolves(element, selector) THEN <<>>
    ELSE LET text == Strip(element.dom[selector][1])
         IN  IF selector = AVAIL_SELECTOR
             THEN RemoveAll(text, LABEL_LITERAL, FALSE)
             ELSE text

\* _clean_data on one availability value.
CleanAvailability(v) == RemoveAll(v, LABEL_LITERAL, FALSE)

\* The bulk column pass, with the case flag dropped.
BulkPassCaseSensitive(v) == Strip(RemoveAll(v, BULK_LITERAL, FALSE))

\* The bulk column pass, with n=1: only the first occurrence is replaced.
BulkPassFirstOnly(v) == Strip(RemoveFirst(v, BULK_LITERAL, TRUE))

\* The bulk column pass of save_to_excel on one cell:
\* .str.replace('availibility\n', '', case=False).str.strip()
BulkPass(v) == Strip(RemoveAll(v, BULK_LITERAL, TRUE))


(***************************************************************************)
(* Inputs of the normalisation: raw availability texts. A text is up to    *)
(* MaxPieces pieces (either literal, a literal split in two, a blank)      *)
(* followed by a date or by nothing.                                       *)
(***************************************************************************)
Jan5 ==
    <<"J", "a", "n", " ", "5", ",", " ", "2", "0", "2", "5">>
Feb1 ==
    <<"F", "e", "b", " ", "1">>
BulkUpper ==
    <<"A", "V", "A", "I", "L", "I", "B", "I", "L", "I", "T", "Y", "\n">>
AvailHead ==
    <<"a", "v", "a", "i", "l">>
AvailTail ==
    <<"i", "b", "i", "l", "i", "t", "y", "\n">>

Pieces == {LABEL_LITERAL, BulkUpper, AvailHead, AvailTail, <<" ">>}

Dates == {<<>>, Jan5, Feb1}

RawTexts ==
    {Concat(ps) \o d : ps \in UNION {[1..n -> Pieces] : n \in 0..MaxPieces}, d \in Dates}

(***************************************************************************)
(* Paths: os.path.join, os.path.basename, os.path.splitext, str(int).      *)
(***************************************************************************)
SCRAPED_DIR ==
    <<"s", "c", "r", "a", "p", "e", "d">>
\* main's output_file
DEFAULT_OUTPUT ==
    <<"a", "p", "a", "r", "t", "m", "e", "n", "t", "_", "l", "i", "s",
    "t", "i", "n", "g", "s", ".", "x", "l", "s", "x">>

DigitChars == <<"0", "1", "2", "3", "4", "5", "6", "7", "8", "9">>

\* str(n) for n >= 0
RECURSIVE Digits(_)
Digits(n) ==
    IF n < 10 THEN <<DigitChars[n + 1]>>
    ELSE Digits(n \div 10) \o <<DigitChars[(n % 10) + 1]>>

\* The path of a plain file name in the output directory.
InDir(name) == SCRAPED_DIR \o <<"/">> \o name

\* Index of the last occurrence of character c in p, 0 when there is none (rfind).
RFind(p, c) ==
    LET at == {i \in 1..Len(p) : p[i] = c}
    IN  IF at = {} THEN 0 ELSE SetMax(at)

\* os.path.join(a, p) for a non-empty a without a trailing separator.
Join(a, p) == IF p # <<>> /\ p[1] = "/" THEN p ELSE a \o <<"/">> \o p

\* os.path.basename(p)
Basename(p) == SubSeq(p, RFind(p, "/") + 1, Len(p))

\* os.path.splitext(p): <<root, ext>>; the extension starts at the last dot of
\* the last component, unless only dots precede it there.
Splitext(p) ==
    LET sepIndex == RFind(p, "/")
        dotIndex == RFind(p, ".")
    IN  IF dotIndex > sepIndex
           /\ \E k \in (sepIndex + 1)..(dotIndex - 1) : p[k] # "."
        THEN <<SubSeq(p, 1, dotIndex - 1), SubSeq(p, dotIndex, Len(p))>>
        ELSE <<p, <<>>>>

\* The candidate of the path loop, with the counter left out of the name.
SuffixedNoCounter(out, n) ==
    Join(SCRAPED_DIR, Splitext(Basename(out))[1] \o <<"_">> \o Splitext(out)[2])

\* f"{base_name}_{counter}{extension}" under SCRAPED_DIR, for output file out.
Suffixed(out, n) ==
    Join(SCRAPED_DIR,
         Splitext(Basename(out))[1] \o <<"_">> \o Digits(n) \o Splitext(out)[2])

\* os.path.exists mutated: only the unsuffixed path is ever found.
PathExistsFirstOnly(p) == p = Join(SCRAPED_DIR, output_file) /\ p \in DOMAIN files

\* os.path.exists(p)
PathExists(p) == p \in DOMAIN files

\* The counter update of the loop, mutated: the counter stays.
CounterStuck(n) == n

\* counter += 1
NextCounter(n) == n + 1

(***************************************************************************)
(* The rendered page and its unit elements.                                *)
(***************************************************************************)
UNIT_SELECTOR == ".unitColumn.column"
SQFT_SELECTOR == ".sqftColumn.column span:nth-child(2)"
PRICE_SELECTOR == ".pricingColumn.column .screenReaderOnly + span"
Selectors == {UNIT_SELECTOR, SQFT_SELECTOR, PRICE_SELECTOR, AVAIL_SELECTOR}

NameAX ==
    <<"a", ".", "x">>
NameA1X ==
    <<"a", "_", "1", ".", "x">>
NameA ==
    <<"a">>

URL_PREFIX ==
    <<"h", "t", "t", "p", "s", ":", "/", "/", "w", "w", "w", ".", "a",
    "p", "a", "r", "t", "m", "e", "n", "t", "s", ".", "c", "o", "m", "/">>
DEFAULT_URL ==
    <<"h", "t", "t", "p", "s", ":", "/", "/", "w", "w", "w", ".", "a",
    "p", "a", "r", "t", "m", "e", "n", "t", "s", ".", "c", "o", "m", "/",
    "p", "o", "s", "t", "-", "c", "h", "i", "c", "a", "g", "o", "-", "i",
    "l", "/", "b", "d", "v", "8", "1", "b", "b", "/">>
InGood ==
    <<"h", "t", "t", "p", "s", ":", "/", "/", "w", "w", "w", ".", "a",
    "p", "a", "r", "t", "m", "e", "n", "t", "s", ".", "c", "o", "m", "/",
    "x">>
InPadded ==
    <<" ", " ", "h", "t", "t", "p", "s", ":", "/", "/", "w", "w", "w",
    ".", "a", "p", "a", "r", "t", "m", "e", "n", "t", "s", ".", "c", "o",
    "m", "/", "x", " ", " ">>
InExample ==
    <<"h", "t", "t", "p", "s", ":", "/", "/", "e", "x", "a", "m", "p",
    "l", "e", ".", "c", "o", "m", "/", "x">>
InHttp ==
    <<"h", "t", "t", "p", ":", "/", "/", "w", "w", "w", ".", "a", "p",
    "a", "r", "t", "m", "e", "n", "t", "s", ".", "c", "o", "m", "/", "x">>
InUpper ==
    <<"H", "T", "T", "P", "S", ":", "/", "/", "W", "W", "W", ".", "A",
    "P", "A", "R", "T", "M", "E", "N", "T", "S", ".", "C", "O", "M", "/",
    "x">>
InNoSlash ==
    <<"h", "t", "t", "p", "s", ":", "/", "/", "w", "w", "w", ".", "a",
    "p", "a", "r", "t", "m", "e", "n", "t", "s", ".", "c", "o", "m">>
InBlank ==
    <<" ", " ">>
InPrefixed ==
    <<"x", " ", "h", "t", "t", "p", "s", ":", "/", "/", "w", "w", "w",
    ".", "a", "p", "a", "r", "t", "m", "e", "n", "t", "s", ".", "c", "o",
    "m", "/">>


\* An element whose availability span holds text and nothing else resolves.
AvailElement(text) ==
    [dom |-> [s \in Selectors |-> IF s = AVAIL_SELECTOR THEN <<text>> ELSE <<>>],
     stale |-> FALSE, unprintable |-> FALSE]

\* The unit elements a page may hold. unprintable: the console cannot encode
\* the unit's text, so print(f"Scraped unit data: ...") raises.
Unit(u, s, p, a, stale, unprintable) ==
    [dom |-> (UNIT_SELECTOR :> u) @@ (SQFT_SELECTOR :> s) @@ (PRICE_SELECTOR :> p)
             @@ (AVAIL_SELECTOR :> a),
     stale |-> stale, unprintable |-> unprintable]

UnitFull ==
    Unit(<<<<" ", "1", "A", " ">>>>, <<<<"7", "5", "0">>>>, <<<<"$", "1">>>>,
         <<LABEL_LITERAL \o Feb1>>, FALSE, FALSE)
UnitNoPrice ==
    Unit(<<<<"2", "B">>>>, <<<<"8", "0">>>>, <<>>, <<BulkUpper \o <<" ">> \o Feb1>>,
         FALSE, FALSE)
UnitStale ==
    Unit(<<<<"3", "C">>>>, <<<<"9", "0">>>>, <<<<"$", "3">>>>, <<Jan5>>, TRUE, FALSE)
UnitUnprintable ==
    Unit(<<<<"4", "D">>>>, <<>>, <<<<"$", "4">>>>, <<LABEL_LITERAL \o Jan5>>, FALSE, TRUE)
UnitBare == Unit(<<>>, <<>>, <<>>, <<>>, FALSE, FALSE)

UnitKinds == {UnitFull, UnitNoPrice, UnitStale, UnitUnprintable, UnitBare}

Pages == UNION {[1..n -> UnitKinds] : n \in 0..MaxUnits}

(***************************************************************************)
(* scrape_listing                                                          *)
(***************************************************************************)
\* The record lines 69-74 build for one unit element.
UnitRecord(unit) ==
    [unit_number  |-> GetText(unit, UNIT_SELECTOR),
     sq_ft        |-> GetText(unit, SQFT_SELECTOR),
     price        |-> GetText(unit, PRICE_SELECTOR),
     availability |-> GetText(unit, AVAIL_SELECTOR)]

\* The unit loop with the append moved after the print: a unit whose print
\* raises is dropped.
RECURSIVE AssembleSkipping(_)
AssembleSkipping(units) ==
    IF units = <<>> THEN <<>>
    ELSE (IF Head(units).unprintable THEN <<>> ELSE <<UnitRecord(Head(units))>>)
         \o AssembleSkipping(Tail(units))

\* The unit loop, lines 66-81: per unit the record is built and appended, then
\* printed; a raise of the print is caught (line 77) after the append, and the
\* loop goes on with the next unit.
RECURSIVE AssembleRecords(_)
AssembleRecords(units) ==
    IF units = <<>> THEN <<>>
    ELSE <<UnitRecord(Head(units))>> \o AssembleRecords(Tail(units))

\* What can raise: a call on the driver or on an element handle, the write of
\* the file, and a print whose argument comes from the page (title, page
\* source, unit text) when the console cannot encode it. The prints of fixed
\* messages and of exception texts do not raise.
\*
\* What the rendering client does in one scrape_listing call:
\*   "nav_error"  driver.get raises (line 54)
\*   "timeout"    the wait raises TimeoutException (lines 55-57); diag_fails:
\*                reading or printing driver.page_source in the handler raises
\*   "info_error" driver.title / current_url or their print raises (lines 61-62)
\*   "ok"         the page renders with the unit elements units
PageOutcomes ==
    {[outcome |-> "nav_error", units |-> <<>>, diag_fails |-> FALSE],
     [outcome |-> "info_error", units |-> <<>>, diag_fails |-> FALSE]}
    \cup {[outcome |-> "timeout", units |-> <<>>, diag_fails |-> d] : d \in BOOLEAN}
    \cup {[outcome |-> "ok", units |-> us, diag_fails |-> FALSE] : us \in Pages}

NoPage == [outcome |-> "none", units |-> <<>>, diag_fails |-> FALSE]

\* Whether scrape_listing raises: only an exception raised inside the
\* TimeoutException handler (lines 84-85) leaves the function.
ScrapeRaisesOut(p) == p.outcome = "timeout" /\ p.diag_fails

\* The list scrape_listing returns when it returns.
ScrapeResult(p) == IF p.outcome = "ok" THEN AssembleRecords(p.units) ELSE <<>>


(***************************************************************************)
(* save_to_excel                                                           *)
(***************************************************************************)
\* _clean_data(data): the label literal replaced in every unit's availability.
CleanData(data) ==
    [i \in 1..Len(data) |->
        [data[i] EXCEPT !.availability = CleanAvailability(@)]]

\* Lines 113-117: the DataFrame of the cleaned data, its availability column
\* (present when there is a row) bulk-passed.
DataFrame(data) ==
    [i \in 1..Len(data) |-> [data[i] EXCEPT !.availability = BulkPass(@)]]

\* Lines 111-123: clean the data, build the table, start the path loop at the
\* desired name under SCRAPED_DIR with counter 1.
SaveBegin ==
    /\ pc = "save_begin"
    /\ units_data' = CleanData(units_data)
    /\ df' = DataFrame(CleanData(units_data))
    /\ counter' = 1
    /\ final_output_file' = Join(SCRAPED_DIR, output_file)
    /\ tried' = <<>>
    /\ pc' = "save_loop"
    /\ UNCHANGED <<caller, raw_input, url, browser, page, scrape_ret, exc,
                   output_file, files, files0, initFiles, log, runs>>
    /\ UNCHANGED normVars

\* Lines 125-127: the candidate exists, so the next suffixed name is tried.
SaveLoopIter ==
    /\ pc = "save_loop"
    /\ PathExists(final_output_file)
    /\ counter <= MaxCounter
    /\ tried' = Append(tried, final_output_file)
    /\ final_output_file' = Suffixed(output_file, counter)
    /\ counter' = NextCounter(counter)
    /\ UNCHANGED <<pc, caller, raw_input, url, browser, page, scrape_ret,
                   units_data, exc, df, output_file, files, files0, initFiles,
                   log, runs>>
    /\ UNCHANGED normVars

\* Line 125: the candidate does not exist, the loop ends.
SaveLoopExit ==
    /\ pc = "save_loop"
    /\ ~PathExists(final_output_file)
    /\ tried' = Append(tried, final_output_file)
    /\ pc' = "save_write"
    /\ UNCHANGED <<caller, raw_input, url, browser, page, scrape_ret, units_data,
                   exc, df, output_file, final_output_file, counter, files,
                   files0, initFiles, log, runs>>
    /\ UNCHANGED normVars

\* Where control goes when the try block of main is left, with e the
\* exception in flight, if the finally clause did not catch exceptions.
AfterTryNoFinally(e) == IF e = "none" THEN "close" ELSE "done"

\* Lines 150-164: the finally clause runs however the try block is left.
AfterTry(e) == "close"

\* Where save_to_excel returns to (or raises into).
SaveReturn(e) == IF caller = "main" THEN AfterTry(e) ELSE "api_done"

\* Lines 129-130: df.to_excel creates or replaces the file at the final path,
\* or raises (IOError / OSError) and writes nothing.
SaveWrite ==
    /\ pc = "save_write"
    /\ \E ok \in BOOLEAN :
          IF ok
          THEN /\ files' = [p \in DOMAIN files \cup {final_output_file} |->
                              IF p = final_output_file THEN Len(log) + 1 ELSE files[p]]
               /\ log' = Append(log, <<output_file, final_output_file>>)
               /\ pc' = SaveReturn("none")
               /\ exc' = exc
          ELSE /\ exc' = "io_error"
               /\ pc' = SaveReturn("io_error")
               /\ UNCHANGED <<files, log>>
    /\ UNCHANGED <<caller, raw_input, url, browser, page, scrape_ret, units_data,
                   df, output_file, final_output_file, counter, tried, files0,
                   initFiles, runs>>
    /\ UNCHANGED normVars

(***************************************************************************)
(* main                                                                    *)
(***************************************************************************)
RawInputs == {<<>>, InBlank, InGood, InPadded, InExample, InHttp, InUpper,
              InNoSlash, InPrefixed}

\* Line 143 mutated: the prefix is compared without its trailing slash.
AcceptsLoose(u) == StartsWithLoose(u, URL_PREFIX)

\* Line 143: the URL begins with the accepted domain prefix.
Accepts(u) == StartsWith(u, URL_PREFIX)

\* Lines 138-145 of a fresh run: read and trim the URL; an empty one becomes
\* the default, one that is not accepted ends the run.
MainStart ==
    /\ pc \in {"idle", "done"}
    /\ runs < MaxRuns
    /\ \E raw \in RawInputs :
          /\ raw_input' = raw
          /\ LET u == Strip(raw)
             IN  IF u = <<>>
                 THEN url' = DEFAULT_URL /\ pc' = "construct"
                 ELSE /\ url' = u
                      /\ pc' = IF Accepts(u) THEN "construct" ELSE "done"
    /\ runs' = runs + 1
    /\ browser' = "none"
    /\ page' = NoPage
    /\ scrape_ret' = "none"
    /\ units_data' = <<>>
    /\ exc' = "none"
    /\ df' = <<>>
    /\ output_file' = <<>>
    /\ final_output_file' = <<>>
    /\ counter' = 0
    /\ tried' = <<>>
    /\ files0' = files
    /\ UNCHANGED <<caller, files, initFiles, log>>
    /\ UNCHANGED normVars

\* Line 148, ApartmentScraper(): the driver starts (at the first or the second
\* attempt), or both attempts fail and the exception leaves main.
Construct ==
    /\ pc = "construct"
    /\ \E started \in BOOLEAN :
          IF started
          THEN browser' = "acquired" /\ pc' = "scrape" /\ exc' = exc
          ELSE browser' = browser /\ pc' = "done" /\ exc' = "init_error"
    /\ UNCHANGED <<caller, raw_input, url, page, scrape_ret, units_data, df,
                   output_file, final_output_file, counter, tried, files, files0,
                   initFiles, log, runs>>
    /\ UNCHANGED normVars

\* Lines 152-153, scraper.scrape_listing(url), the whole call.
Scrape ==
    /\ pc = "scrape"
    /\ \E p \in PageOutcomes :
          /\ page' = p
          /\ IF ScrapeRaisesOut(p)
             THEN /\ scrape_ret' = "raised"
                  /\ exc' = "scrape_error"
                  /\ units_data' = units_data
                  /\ pc' = AfterTry("scrape_error")
             ELSE /\ scrape_ret' = "returned"
                  /\ exc' = exc
                  /\ units_data' = ScrapeResult(p)
                  /\ pc' = "branch"
    /\ UNCHANGED <<caller, raw_input, url, browser, df, output_file,
                   final_output_file, counter, tried, files, files0, initFiles,
                   log, runs>>
    /\ UNCHANGED normVars

\* Line 155 mutated: the export runs whatever was scraped.
TruthyAlways(data) == TRUE

\* Line 155, "if units_data:": a non-empty list.
Truthy(data) == data # <<>>

\* Lines 155-160: export what was scraped, or report that nothing was.
MainBranch ==
    /\ pc = "branch"
    /\ IF Truthy(units_data)
       THEN output_file' = DEFAULT_OUTPUT /\ pc' = "save_begin"
       ELSE output_file' = output_file /\ pc' = AfterTry("none")
    /\ UNCHANGED <<caller, raw_input, url, browser, page, scrape_ret, units_data,
                   exc, df, final_output_file, counter, tried, files, files0,
                   initFiles, log, runs>>
    /\ UNCHANGED normVars

\* Lines 162-164 and 132-134: scraper.close() quits the driver; an exception
\* in flight goes on out of main.
Close ==
    /\ pc = "close"
    /\ browser' = "released"
    /\ pc' = "done"
    /\ UNCHANGED <<caller, raw_input, url, page, scrape_ret, units_data, exc, df,
                   output_file, final_output_file, counter, tried, files, files0,
                   initFiles, log, runs>>
    /\ UNCHANGED normVars

\* The files a run of main may find in SCRAPED_DIR.
MainPaths ==
    {InDir(DEFAULT_OUTPUT),
     InDir(SubSeq(DEFAULT_OUTPUT, 1, 18) \o <<"_", "1">> \o SubSeq(DEFAULT_OUTPUT, 19, 23))}

InitNorm == nin = <<>> /\ ntrace = <<>>

InitRun(who, paths) ==
    /\ pc = "idle"
    /\ caller = who
    /\ raw_input = <<>>
    /\ url = <<>>
    /\ browser = "none"
    /\ page = NoPage
    /\ scrape_ret = "none"
    /\ units_data = <<>>
    /\ exc = "none"
    /\ df = <<>>
    /\ output_file = <<>>
    /\ final_output_file = <<>>
    /\ counter = 0
    /\ tried = <<>>
    /\ files \in {[p \in ps |-> 0] : ps \in SUBSET paths}
    /\ files0 = files
    /\ initFiles = files
    /\ log = <<>>
    /\ runs = 0

Init == InitNorm /\ InitRun("main", MainPaths)

Next ==
    \/ MainStart
    \/ Construct
    \/ Scrape
    \/ MainBranch
    \/ SaveBegin
    \/ SaveLoopIter
    \/ SaveLoopExit
    \/ SaveWrite
    \/ Close

Spec == Init /\ [][Next]_vars


(***************************************************************************)
(* save_to_excel called directly, with any desired file name.              *)
(***************************************************************************)
DesiredNames == {NameAX, NameA1X, NameA}

\* The files direct exports may find in SCRAPED_DIR: the desired names and
\* some of their suffixed forms.
ExportPaths ==
    {InDir(NameAX), InDir(NameA1X), InDir(<<"a", "_", "2", ".", "x">>), InDir(NameA)}

SampleRow ==
    [unit_number |-> <<"1", "A">>, sq_ft |-> <<"7", "5", "0">>,
     price |-> <<"$", "1">>, availability |-> BulkUpper \o <<" ">> \o Feb1]

ApiTables == {<<SampleRow>>}

\* scraper.save_to_excel(data, name) called by a client of the class.
ApiCall ==
    /\ pc \in {"idle", "api_done"}
    /\ runs < MaxExports
    /\ \E name \in DesiredNames, data \in ApiTables :
          /\ output_file' = name
          /\ units_data' = data
    /\ pc' = "save_begin"
    /\ runs' = runs + 1
    /\ exc' = "none"
    /\ df' = <<>>
    /\ final_output_file' = <<>>
    /\ counter' = 0
    /\ tried' = <<>>
    /\ files0' = files
    /\ UNCHANGED <<caller, raw_input, url, browser, page, scrape_ret, files,
                   initFiles, log>>
    /\ UNCHANGED normVars

InitExport == InitNorm /\ InitRun("api", ExportPaths)

NextExport ==
    \/ ApiCall
    \/ SaveBegin
    \/ SaveLoopIter
    \/ SaveLoopExit
    \/ SaveWrite

\* save_to_excel is sequential code: while it is in its path loop, the loop's
\* next step (another iteration, or the exit) is taken.
SpecExport ==
    /\ InitExport
    /\ [][NextExport]_vars
    /\ WF_vars(SaveLoopIter \/ SaveLoopExit)

(***************************************************************************)
(* The normalisation passes applied to raw availability texts: in the      *)
(* pipeline's order (_get_text, _clean_data, bulk pass), the bulk pass     *)
(* also on its own and repeated.                                           *)
(***************************************************************************)
Current == IF ntrace = <<>> THEN nin ELSE ntrace[Len(ntrace)].val

LastOp == IF ntrace = <<>> THEN "none" ELSE ntrace[Len(ntrace)].op

BulkPasses == Cardinality({i \in 1..Len(ntrace) : ntrace[i].op = "bulk"})

\* _get_text on a unit whose availability span reads nin.
ApplyGetText ==
    /\ ntrace = <<>>
    /\ ntrace' = <<[op |-> "get_text", val |-> GetText(AvailElement(nin), AVAIL_SELECTOR)]>>
    /\ UNCHANGED nin
    /\ UNCHANGED runVars

\* _clean_data on the value _get_text returned.
ApplyCleanData ==
    /\ LastOp = "get_text"
    /\ ntrace' = Append(ntrace, [op |-> "clean", val |-> CleanAvailability(Current)])
    /\ UNCHANGED nin
    /\ UNCHANGED runVars

\* The bulk pass: on the cleaned value, on a raw text, or once more.
ApplyBulkPass ==
    /\ LastOp \in {"none", "clean", "bulk"}
    /\ BulkPasses < MaxPasses
    /\ ntrace' = Append(ntrace, [op |-> "bulk", val |-> BulkPass(Current)])
    /\ UNCHANGED nin
    /\ UNCHANGED runVars

InitNormalise ==
    /\ nin \in RawTexts
    /\ ntrace = <<>>
    /\ InitRun("main", {})

NextNormalise ==
    \/ ApplyGetText
    \/ ApplyCleanData
    \/ ApplyBulkPass

SpecNormalise == InitNormalise /\ [][NextNormalise]_vars


(***************************************************************************)
(* Claims about the export path (checked under SpecExport).                *)
(***************************************************************************)
SavePcs == {"save_begin", "save_loop", "save_write"}

\* C1: the path handed to the write does not exist when the write happens,
\* and no export ever replaces a file that was there before it started: the
\* files of the initial directory and every file an earlier export wrote
\* keep their content.
C1_FinalPathIsFree ==
    /\ pc = "save_write" => final_output_file \notin DOMAIN files
    /\ \A p \in DOMAIN files0 : p \in DOMAIN files /\ files[p] = files0[p]
    /\ \A p \in DOMAIN initFiles : p \in DOMAIN files /\ files[p] = 0
    /\ \A k \in 1..Len(log) : log[k][2] \in DOMAIN files /\ files[log[k][2]] = k

\* Two exports were written, the second after at least one collision.
C1_Witness ==
    /\ pc = "api_done"
    /\ exc = "none"
    /\ Len(log) >= 2
    /\ log[2][2] # InDir(log[2][1])
    /\ DOMAIN initFiles # {}

\* The root and the extension of each desired name, written out.
NameParts(d) ==
    CASE d = NameAX -> <<<<"a">>, <<".", "x">>>>
      [] d = NameA1X -> <<<<"a", "_", "1">>, <<".", "x">>>>
      [] d = NameA -> <<<<"a">>, <<>>>>

\* The path the k-th export of desired name d is expected at.
ExpectedPath(d, k) ==
    IF k = 1 THEN InDir(d)
    ELSE InDir(NameParts(d)[1] \o <<"_">> \o Digits(k - 1) \o NameParts(d)[2])

\* The initial directory holds no file matching name*.ext for desired name d.
NoneLike(d) ==
    \A p \in DOMAIN initFiles :
        ~(StartsWith(p, InDir(NameParts(d)[1])) /\ EndsWith(p, NameParts(d)[2]))

\* C2: when every export written so far had the same desired name name.ext and
\* the directory initially held no name*.ext file, the k-th export was written
\* to name.ext (k = 1) or name_<k-1>.ext (k >= 2), and all these files are
\* present with the content their export wrote.
C2_SuccessiveNames ==
    \A d \in DesiredNames :
        (/\ \A k \in 1..Len(log) : log[k][1] = d
         /\ NoneLike(d))
        => \A k \in 1..Len(log) :
              /\ log[k][2] = ExpectedPath(d, k)
              /\ ExpectedPath(d, k) \in DOMAIN files
              /\ files[ExpectedPath(d, k)] = k

\* Three exports of a.x into a directory without a*.x: a.x, a_1.x, a_2.x.
C2_Witness ==
    /\ Len(log) = 3
    /\ \A k \in 1..3 : log[k][1] = NameAX
    /\ NoneLike(NameAX)
    /\ log[3][2] = InDir(<<"a", "_", "2", ".", "x">>)
    /\ files[InDir(NameAX)] = 1
    /\ files[InDir(NameA1X)] = 2

\* C10: the path loop ends at a free candidate and the write is reached; the
\* counter grows with every iteration, no candidate is asked about twice,
\* every candidate found taken is a file of the directory, and at most
\* (number of existing files + 1) existence checks are made.
C10_PathLoopTerminates ==
    /\ [](pc \in {"save_loop", "save_write"} =>
            /\ \A i, j \in 1..Len(tried) : i # j => tried[i] # tried[j]
            /\ Len(tried) <= Cardinality(DOMAIN files) + (IF pc = "save_write" THEN 1 ELSE 0)
            /\ counter <= Cardinality(DOMAIN files) + 1)
    /\ [][pc = "save_loop" /\ pc' = "save_loop" => counter' > counter]_vars
    /\ (pc = "save_loop" ~> pc = "save_write")

\* The loop ended after three taken candidates.
C10_Witness == pc = "save_write" /\ Len(tried) >= 4

(***************************************************************************)
(* Claims about a run of main (checked under Spec).                        *)
(***************************************************************************)
\* C3: a run that acquired the browser ends with it released, however the try
\* block was left: export done, nothing scraped, an exception out of
\* scrape_listing, an IOError of the write. The browser is held only between
\* the construction and the close.
C3_BrowserReleased ==
    /\ pc = "done" => browser \in {"none", "released"}
    /\ browser = "acquired" => pc \in {"scrape", "branch", "close"} \cup SavePcs
    /\ (pc = "done" /\ browser = "none") =>
          \/ exc = "init_error"
          \/ ~StartsWith(url, URL_PREFIX)

\* The write raised IOError and the run ended with the browser released.
C3_Witness == pc = "done" /\ exc = "io_error" /\ browser = "released"

\* The run's scrape_listing call met a navigation failure, a timeout of the
\* wait, or a page with no unit element.
NothingObtained ==
    \/ page.outcome \in {"nav_error", "timeout"}
    \/ page.outcome = "ok" /\ page.units = <<>>

C5_WrongDomainRejected ==
    (/\ runs >= 1
     /\ Strip(raw_input) # <<>>
     /\ ~MatchAt(Strip(raw_input), 1, URL_PREFIX, FALSE))
    => /\ pc = "done"
       /\ browser = "none"
       /\ page = NoPage
       /\ scrape_ret = "none"
       /\ units_data = <<>>
       /\ exc = "none"
       /\ files = files0

\* https://example.com/x was entered.
C5_Witness == pc = "done" /\ raw_input = InExample /\ runs = 2

\* The field of a record and the selector it is read with, in order.
FieldSelectors ==
    <<<<"unit_number", UNIT_SELECTOR>>, <<"sq_ft", SQFT_SELECTOR>>,
      <<"price", PRICE_SELECTOR>>, <<"availability", AVAIL_SELECTOR>>>>

\* Record rec holds what unit yields: "" for a field whose lookup fails, the
\* trimmed text otherwise (the availability without its label literals).
RecordMatches(rec, unit) ==
    /\ DOMAIN rec = {FieldSelectors[n][1] : n \in 1..4}
    /\ \A n \in 1..4 :
          LET f == FieldSelectors[n][1]
              s == FieldSelectors[n][2]
          IN  IF unit.stale \/ unit.dom[s] = <<>>
              THEN rec[f] = <<>>
              ELSE IF s = AVAIL_SELECTOR
                   THEN rec[f] = RemoveAll(Strip(unit.dom[s][1]), LABEL_LITERAL, FALSE)
                   ELSE rec[f] = Strip(unit.dom[s][1])

\* scrape_listing has just returned from a rendered page.
Scraped == pc = "branch" /\ page.outcome = "ok"

\* The indices of the units whose try block (lines 68-76) did not raise.
Unraised(units) == {i \in 1..Len(units) : ~units[i].unprintable}

Repeated(i) ==
    /\ i \in 1..(Len(ntrace) - 1)
    /\ ntrace[i].op = "bulk"
    /\ ntrace[i + 1].op = "bulk"

\* The value pass i of the trace was applied to.
Before(i) == IF i = 1 THEN nin ELSE ntrace[i - 1].val

FullyNormalised ==
    /\ Len(ntrace) >= 3
    /\ ntrace[1].op = "get_text"
    /\ ntrace[2].op = "clean"
    /\ ntrace[3].op = "bulk"

\* nin is the label literal, or the bulk literal in any case, followed by a
\* text that contains neither.
LiteralThenDate ==
    /\ MatchAt(nin, 1, LABEL_LITERAL, FALSE) \/ MatchAt(nin, 1, BULK_LITERAL, TRUE)
    /\ Occurrences(SubSeq(nin, 14, Len(nin)), LABEL_LITERAL, FALSE) = 0
    /\ Occurrences(SubSeq(nin, 14, Len(nin)), BULK_LITERAL, TRUE) = 0

DateOf(text) == SubSeq(text, 14, Len(text))

Extracted == Len(ntrace) >= 1 /\ ntrace[1].op = "get_text"

\* C9 as claimed: of two or more label literals in the trimmed text only the
\* first is stripped, the later ones are in the value _get_text returns.
C9_FirstOccurrenceOnly ==
    (Extracted /\ Occurrences(Strip(nin), LABEL_LITERAL, FALSE) >= 2)
    => ntrace[1].val = RemoveFirst(Strip(nin), LABEL_LITERAL, FALSE)

\* C9 amended: _get_text strips every occurrence of the case-sensitive literal
\* from the trimmed text, not only the first: the value returned is shorter
\* than the trimmed text by the literal's length for each of its occurrences,
\* and begins with no literal when the text began with one or more and a date.
C9_EveryOccurrenceStripped ==
    Extracted =>
        /\ Len(ntrace[1].val) =
              Len(Strip(nin)) - Len(LABEL_LITERAL) * Occurrences(Strip(nin), LABEL_LITERAL, FALSE)
        /\ (\E d \in {Jan5, Feb1} :
                nin \in {LABEL_LITERAL \o d, LABEL_LITERAL \o LABEL_LITERAL \o d,
                         LABEL_LITERAL \o LABEL_LITERAL \o LABEL_LITERAL \o d})
           => ntrace[1].val \in {Jan5, Feb1}

\* A raw text with the literal twice and a date.
C9_Witness ==
    /\ Extracted
    /\ nin = LABEL_LITERAL \o LABEL_LITERAL \o Feb1
    /\ ntrace[1].val = Feb1

=============================================================================
